---- MODULE Spec2Model ----
(***************************************************************************)
(* State-machine model of pokedex_viewer.py: the on-disk object cache      *)
(* (fetch_json, the sprite download of get_pokemon), the worker task       *)
(* (PokemonWorker.run), the two persisted documents (encounter_data.json,  *)
(* shiny_seen.json) and the widget's handlers (__init__, fetch_card,       *)
(* apply_card, show_error, update_shiny_delay).                            *)
(*                                                                         *)
(* Python values are encoded as follows.                                   *)
(*   None                 the empty sequence <<>>; Some(x) is <<x>>        *)
(*   dict                 a sequence of <<key, value>> pairs in insertion  *)
(*                        order, keys unique                               *)
(*   dict key             <<"int", n>> for the int n, <<"str", n>> for the *)
(*                        string str(n): the two are different keys        *)
(*   a file               a record with a field kind; kind "missing" is a  *)
(*                        file that does not exist, kind "garbage" a text  *)
(*                        json.loads rejects (empty, truncated)            *)
(***************************************************************************)
EXTENDS Integers, Sequences, FiniteSets, TLC

\* ------------------------------------------------------------- bounds
\* The dex has MAX_ID slots (493 in the source); the model keeps MAX_ID of them.
MAX_ID == 2
\* fetch_card is triggered at most MaxFetches times in one behaviour.
MaxFetches == 2
\* The wall clock, in minutes, runs from 0 to MaxClock.
MaxClock == 1

Ids == 1..MAX_ID

\* The worker tasks of the thread pool; Spec schedules the tasks of SeqWorkers,
\* SpecOverlap and SpecOverlapFair those of AllWorkers.
AllWorkers == {1, 2}
SeqWorkers == {1}

\* ------------------------------------------------------------- dict
IntKey(n) == <<"int", n>>
StrKey(n) == <<"str", n>>

DictHas(d, k) == \E i \in 1..Len(d) : d[i][1] = k
DictGet(d, k) == d[CHOOSE i \in 1..Len(d) : d[i][1] = k][2]
\* d[k] = v: an existing key keeps its place, a new key goes last.
DictSet(d, k, v) ==
    IF DictHas(d, k)
    THEN [i \in 1..Len(d) |-> IF d[i][1] = k THEN <<k, v>> ELSE d[i]]
    ELSE Append(d, <<k, v>>)

\* ------------------------------------------------------------- json
\* json.dumps writes every key of an object as a string: the int 25 and the
\* string "25" are both written "25".
JsonKey(k) == StrKey(k[2])
\* The members of the object json.dumps writes for a dict, in dict order.
JsonDumpsObject(d) == [i \in 1..Len(d) |-> <<JsonKey(d[i][1]), d[i][2]>>]
\* json.loads of an object: a dict built member by member, a repeated name
\* keeping the last value.
RECURSIVE JsonLoadsObject(_)
JsonLoadsObject(members) ==
    IF members = <<>> THEN <<>>
    ELSE LET n == Len(members)
         IN DictSet(JsonLoadsObject(SubSeq(members, 1, n - 1)),
                    members[n][1], members[n][2])

\* ------------------------------------------------------------- files
\* Path.write_text: open(mode "w") then write then close. "ok" leaves the new
\* text, "noopen" fails before the file is touched, "partial" fails after the
\* file was truncated and leaves a text json.loads rejects.
WriteOutcomes == {"ok", "noopen", "partial"}

\* The ledger document ENCOUNTER_LOG. kind:
\*   "ledger"    the object save_encounter_data writes
\*   "scalar"    a JSON value that is no object (a number, a list)
\*   "badnames"  an object whose "names" is a number
MissingLedger == [kind |-> "missing", names |-> <<>>, ids |-> {}, map |-> <<>>]
GarbageLedger == [kind |-> "garbage", names |-> <<>>, ids |-> {}, map |-> <<>>]
ScalarLedger == [kind |-> "scalar", names |-> <<>>, ids |-> {}, map |-> <<>>]
BadNamesLedger == [kind |-> "badnames", names |-> <<>>, ids |-> {}, map |-> <<>>]

\* The shiny-history document HISTORY_FILE. kind:
\*   "list"        the list save_shiny_history writes
\*   "scalar"      a JSON number
\*   "badentries"  a JSON list whose elements are numbers
MissingHist == [kind |-> "missing", entries |-> <<>>]
GarbageHist == [kind |-> "garbage", entries |-> <<>>]
ScalarHist == [kind |-> "scalar", entries |-> <<>>]
BadEntriesHist == [kind |-> "badentries", entries |-> <<>>]

\* The documents the program may find on disk when it is first started.
InitLedgerDocs == {MissingLedger, GarbageLedger, ScalarLedger, BadNamesLedger}
InitHistDocs == {MissingHist, GarbageHist, ScalarHist, BadEntriesHist}

\* json.dumps({"names": names, "ids": list(ids), "names_by_id": name_map}).
\* The list of ids is read back through set(), so it is kept as a set.
LedgerText(names, ids, name_map) ==
    [kind |-> "ledger", names |-> names, ids |-> ids,
     map |-> JsonDumpsObject(name_map)]

HistText(hist) == [kind |-> "list", entries |-> hist]

write_text(old, text, garbage, outcome) ==
    CASE outcome = "ok" -> text
      [] outcome = "noopen" -> old
      [] outcome = "partial" -> garbage

\* A save_encounter_data that leaves the flush to a later step.
save_encounter_data_batched(old, names, ids, name_map, outcome) == old

\* A save_encounter_data that adds the newest name to the document it finds.
save_encounter_data_delta(old, names, ids, name_map, outcome) ==
    write_text(old,
               LedgerText(Append(old.names, names[Len(names)]), ids, name_map),
               GarbageLedger, outcome)

\* save_encounter_data: the exception of a failed write is swallowed.
save_encounter_data(old, names, ids, name_map, outcome) ==
    write_text(old, LedgerText(names, ids, name_map), GarbageLedger, outcome)

\* save_shiny_history: likewise.
save_shiny_history(old, hist, outcome) ==
    write_text(old, HistText(hist), GarbageHist, outcome)

\* load_encounter_data. A missing or unparseable file raises inside the try,
\* and so does raw.get on a value that is no object: the except branch returns
\* the empty ledger. An object of the wrong shape raises nothing: its "names"
\* is returned as it is (names_is_list = FALSE says it is no list).
EmptyLedger == [names |-> <<>>, names_is_list |-> TRUE, ids |-> {}, name_map |-> <<>>]
load_encounter_data(doc) ==
    CASE doc.kind \in {"missing", "garbage", "scalar"} -> EmptyLedger
      [] doc.kind = "badnames" ->
            [names |-> <<>>, names_is_list |-> FALSE, ids |-> {}, name_map |-> <<>>]
      [] doc.kind = "ledger" ->
            [names |-> doc.names, names_is_list |-> TRUE, ids |-> doc.ids,
             name_map |-> JsonLoadsObject(doc.map)]

\* load_shiny_history: json.loads(read_text), [] only when that raises. Any
\* parseable document is returned as it is: is_list = FALSE is a value that
\* is no list, entries_ok = FALSE a list whose elements are no entries.
EmptyHistory == [is_list |-> TRUE, entries_ok |-> TRUE, entries |-> <<>>]
load_shiny_history(doc) ==
    CASE doc.kind \in {"missing", "garbage"} -> EmptyHistory
      [] doc.kind = "scalar" -> [is_list |-> FALSE, entries_ok |-> TRUE, entries |-> <<>>]
      [] doc.kind = "badentries" -> [is_list |-> TRUE, entries_ok |-> FALSE, entries |-> <<>>]
      [] doc.kind = "list" -> [is_list |-> TRUE, entries_ok |-> TRUE, entries |-> doc.entries]

\* ------------------------------------------------------------- get_pokemon
\* data["name"].capitalize() of the profile of pid: the catalogue's name of pid.
NameOf(pid) == <<"Name", pid>>
\* The text "***" of an unrevealed cell's name label.
Stars == <<"***", 0>>

\* dex = f"#{pid:03d}"
FormatDex(pid) == <<"#", (pid \div 100) % 10, (pid \div 10) % 10, pid % 10>>
\* int(entry["dex"][1:])
ParseDex(dex) == dex[2] * 100 + dex[3] * 10 + dex[4]

\* now.strftime("%I:%M %p") and now.strftime("%d/%m/%Y") of the minute `now`.
MinutesPerDay == 24 * 60
FormatTime(now) == now % MinutesPerDay
FormatDate(now) == now \div MinutesPerDay

\* The entry apply_card appends to the shiny history.
ShinyEntry(pid, now) ==
    [dex |-> FormatDex(pid), name |-> NameOf(pid),
     time |-> FormatTime(now), date |-> FormatDate(now)]

\* The cache files of CACHE_DIR: pokemon_{pid}.json, species_{pid}.json,
\* {pid}_normal.png, {pid}_shiny.png. A file is "absent", "partial" (created
\* and not completely written), "good" or "bad" (a complete text that is no
\* usable JSON).
JsonKinds == {"pokemon", "species"}
SpriteKinds == {"normal", "shiny"}
CacheKeys == Ids \X (JsonKinds \cup SpriteKinds)
sprite_tag(pid, shiny) == <<pid, IF shiny THEN "shiny" ELSE "normal">>

\* cache_path.exists()
Exists(files, key) == files[key] # "absent"
\* json.loads(cache_path.read_text()) returns only for a good file.
Parses(files, key) == files[key] = "good"
\* QPixmap(path): the image of a good file, the null pixmap otherwise.
QPixmap(files, key) == IF files[key] = "good" THEN key[2] ELSE "null"

\* What requests.get answers for a JSON document: "neterr" raises in get,
\* "status" raises in raise_for_status, "badbody" is a 200 whose body is no
\* JSON, "ok" a 200 with the document.
JsonResponses == {"neterr", "status", "badbody", "ok"}
\* What it answers for a sprite: "notok" is a response with img.ok false.
SpriteResponses == {"neterr", "notok", "ok"}

\* ------------------------------------------------------------- widget helpers
\* A tooltip is a sequence of lines; NoShinyLine is "No shiny encountered yet."
NoShinyLine == [placeholder |-> TRUE, time |-> 0, date |-> 0]
\* new_line = f"{entry['time']} - {entry['date']}"
TooltipLine(entry) == [placeholder |-> FALSE, time |-> entry.time, date |-> entry.date]

\* An _append_shiny_tooltip that keeps the placeholder line.
append_shiny_tooltip_keep(tooltip, entry) == Append(tooltip, TooltipLine(entry))

\* An _append_shiny_tooltip that replaces the tooltip by the new line.
append_shiny_tooltip_replace(tooltip, entry) == <<TooltipLine(entry)>>

\* _append_shiny_tooltip on the tooltip of one cell.
append_shiny_tooltip(tooltip, entry) ==
    LET existing == IF tooltip # <<>> /\ tooltip[1].placeholder THEN <<>> ELSE tooltip
    IN Append(existing, TooltipLine(entry))

\* The cell _build_dex_grid makes for pid.
build_cell(pid, ids, name_map, files) ==
    [pix |-> IF pid \in ids /\ Exists(files, <<pid, "normal">>)
             THEN QPixmap(files, <<pid, "normal">>) ELSE "grey",
     name |-> IF pid \in ids /\ DictHas(name_map, IntKey(pid))
              THEN DictGet(name_map, IntKey(pid)) ELSE Stars,
     tooltip |-> <<NoShinyLine>>]

\* The constructor's replay of the loaded shiny history into the grid.
RECURSIVE replay_tooltips(_, _)
replay_tooltips(cells, hist) ==
    IF hist = <<>> THEN cells
    ELSE LET n == Len(hist)
             before == replay_tooltips(cells, SubSeq(hist, 1, n - 1))
             pid == ParseDex(hist[n].dex)
         IN IF pid \in DOMAIN before
            THEN [before EXCEPT ![pid].tooltip = append_shiny_tooltip(@, hist[n])]
            ELSE before

\* update_dex_cell
update_dex_cell(cells, pid, sprite_key, name, files) ==
    [cells EXCEPT ![pid].pix = QPixmap(files, sprite_key), ![pid].name = name]

\* update_shiny_delay: None is "No shiny encountered yet.", <<m>> is m minutes.
update_shiny_delay(last, now) ==
    IF last = <<>> THEN <<>> ELSE <<now - last[1]>>

\* collections.Counter(seq).most_common(1): the element counted most often,
\* the first inserted one among equals; [] for no element.
Count(seq, x) == Cardinality({i \in 1..Len(seq) : seq[i] = x})
FirstAt(seq, x) == CHOOSE i \in 1..Len(seq) : seq[i] = x /\ \A j \in 1..(i - 1) : seq[j] # x
most_common(seq) ==
    IF seq = <<>> THEN <<>>
    ELSE LET best == CHOOSE i \in 1..Len(seq) :
                       /\ FirstAt(seq, seq[i]) = i
                       /\ \A j \in 1..Len(seq) :
                            \/ Count(seq, seq[j]) < Count(seq, seq[i])
                            \/ /\ Count(seq, seq[j]) = Count(seq, seq[i])
                               /\ FirstAt(seq, seq[j]) >= i
         IN <<seq[best], Count(seq, seq[best])>>

\* update_stats: the parts of the stats label.
update_stats(names, hist) ==
    LET most == most_common(names)
    IN [total |-> Len(names),
        most |-> IF most # <<>> /\ most[2] > 1 THEN most ELSE <<>>,
        shiny_top |-> most_common([i \in 1..Len(hist) |-> hist[i].name])]

\* ------------------------------------------------------------- state
VARIABLES
    proc,             \* "stopped", "running" or "crashed" (an uncaught exception)
    ledgerDoc,        \* the file ENCOUNTER_LOG
    histDoc,          \* the file HISTORY_FILE
    cache,            \* the cache files: CacheKeys -> content
    encounters,       \* self.encounters
    encounter_ids,    \* self.encounter_ids
    id_to_name,       \* self.id_to_name
    shiny_history,    \* self.shiny_history
    last_shiny_time,  \* self.last_shiny_time
    dex_cells,        \* self.dex_cells: pid -> [pix, name, tooltip]
    img_lbl,          \* self.img_lbl: "", "pixmap" or "(no sprite)"
    flavor_lbl,       \* self.flavor_lbl: "", "flavor" or "error"
    since_lbl,        \* self.since_lbl, as update_shiny_delay computes it
    stats_lbl,        \* self.stats_lbl, as update_stats computes it
    tasks,            \* the PokemonWorker of each pool thread
    uiQueue,          \* the signals queued for the widget's thread, oldest first
    clock,            \* datetime.now(UK_TZ), in minutes
    applied,          \* history: the encounters apply_card applied since the start,
                      \* each with the cache files its attempt created (wrote) and
                      \* the outcomes of its two writes (wl, wh; "none": no write)
    loaded,           \* history: what the constructor loaded from the documents
    fetched,          \* history: the number of fetch_card calls so far
    delivered         \* history: the number of signals handled so far

disk == <<ledgerDoc, histDoc>>
memory == <<encounters, encounter_ids, id_to_name, shiny_history, last_shiny_time,
            dex_cells, img_lbl, flavor_lbl, since_lbl, stats_lbl>>
history == <<applied, loaded, fetched, delivered>>
vars == <<proc, ledgerDoc, histDoc, cache, encounters, encounter_ids, id_to_name,
          shiny_history, last_shiny_time, dex_cells, img_lbl, flavor_lbl,
          since_lbl, stats_lbl, tasks, uiQueue, clock, applied, loaded, fetched,
          delivered>>

\* A worker: stage is the key it is resolving ("idle", "pokemon", "species",
\* "sprite"), step its place in that resolution ("check": before the exists
\* test, "get": in requests.get, "write": the file is open for writing).
\* body is the response being written. served, wrote and failures are history:
\* where the last JSON document came from, the cache files this attempt
\* created, and the remote failures this attempt met.
IdleTask ==
    [stage |-> "idle", step |-> "check", pid |-> 0, shiny |-> FALSE,
     body |-> "none", served |-> "none", wrote |-> {}, failures |-> {}]

\* get_pokemon's draws: pid = random.randint(1, MAX_ID), shiny = random.random() < SHINY_RATE.
StartedTask(pid, shiny) ==
    [IdleTask EXCEPT !.stage = "pokemon", !.pid = pid, !.shiny = shiny]

NoCells == [pid \in Ids |-> [pix |-> "grey", name |-> Stars, tooltip |-> <<NoShinyLine>>]]
NothingLoaded == [names |-> <<>>, ids |-> {}, hist |-> <<>>]

Init ==
    /\ proc = "stopped"
    /\ ledgerDoc \in InitLedgerDocs
    /\ histDoc \in InitHistDocs
    /\ cache = [k \in CacheKeys |-> "absent"]
    /\ encounters = <<>>
    /\ encounter_ids = {}
    /\ id_to_name = <<>>
    /\ shiny_history = <<>>
    /\ last_shiny_time = <<>>
    /\ dex_cells = NoCells
    /\ img_lbl = ""
    /\ flavor_lbl = ""
    /\ since_lbl = <<>>
    /\ stats_lbl = update_stats(<<>>, <<>>)
    /\ tasks = [t \in AllWorkers |-> IdleTask]
    /\ uiQueue = <<>>
    /\ clock = 0
    /\ applied = <<>>
    /\ loaded = NothingLoaded
    /\ fetched = 0
    /\ delivered = 0

\* ------------------------------------------------------------- worker
\* PokemonWorker.run: the signal a finished get_pokemon emits.
ResultSignal(task) ==
    [kind |-> "result", pid |-> task.pid, shiny |-> task.shiny,
     wrote |-> task.wrote, failures |-> task.failures]
ErrorSignal(task) ==
    [kind |-> "error", pid |-> task.pid, shiny |-> task.shiny,
     wrote |-> task.wrote, failures |-> task.failures]
\* A run whose except branch emits the error and then the result as well.
run_signals_both(task, raised) ==
    IF raised THEN <<ErrorSignal(task), ResultSignal(task)>> ELSE <<ResultSignal(task)>>

\* A run whose except branch emits nothing.
run_signals_swallow(task, raised) ==
    IF raised THEN <<>> ELSE <<ResultSignal(task)>>

run_signals(task, raised) ==
    IF raised THEN <<ErrorSignal(task)>> ELSE <<ResultSignal(task)>>

\* get_pokemon returned or raised: run emits its signal and the task ends.
Finish(t, task, raised) ==
    /\ uiQueue' = uiQueue \o run_signals(task, raised)
    /\ tasks' = [tasks EXCEPT ![t] = IdleTask]

Failed(task, cause) == [task EXCEPT !.failures = @ \cup {<<task.stage, cause>>}]

\* The stage after a JSON document was obtained.
NextStage(stage) == IF stage = "pokemon" THEN "species" ELSE "sprite"
Advance(task, from) ==
    [task EXCEPT !.stage = NextStage(task.stage), !.step = "check",
                 !.body = "none", !.served = from]

\* A fetch_json that asks the remote whether or not the file exists.
must_fetch_always(files, key) == TRUE

\* fetch_json's test: the remote is asked only for a file that does not exist.
must_fetch(files, key) == ~Exists(files, key)

\* fetch_json, up to requests.get: a cached file is parsed and returned (a
\* file that does not parse raises); otherwise the request is made.
JsonCheck(t) ==
    LET task == tasks[t]
        key == <<task.pid, task.stage>>
    IN /\ proc = "running"
       /\ task.stage \in JsonKinds
       /\ task.step = "check"
       /\ UNCHANGED <<proc, disk, cache, memory, clock, history>>
       /\ IF must_fetch(cache, key)
          THEN /\ tasks' = [tasks EXCEPT ![t].step = "get"]
               /\ UNCHANGED uiQueue
          ELSE IF Parses(cache, key)
               THEN /\ tasks' = [tasks EXCEPT ![t] = Advance(task, "cache")]
                    /\ UNCHANGED uiQueue
               ELSE Finish(t, Failed(task, "cached"), TRUE)

\* requests.get and raise_for_status raise for these answers.
json_response_raises(r) == r \in {"neterr", "status"}

\* fetch_json, requests.get to the opening of the cache file by write_text.
JsonGet(t) ==
    LET task == tasks[t]
        key == <<task.pid, task.stage>>
    IN /\ proc = "running"
       /\ task.stage \in JsonKinds
       /\ task.step = "get"
       /\ UNCHANGED <<proc, disk, memory, clock, history>>
       /\ \E r \in JsonResponses, open \in {"ok", "noopen"} :
            IF json_response_raises(r)
            THEN /\ open = "ok"
                 /\ Finish(t, Failed(task, r), TRUE)
                 /\ UNCHANGED cache
            ELSE IF open = "noopen"
                 THEN /\ Finish(t, Failed(task, "noopen"), TRUE)
                      /\ UNCHANGED cache
                 ELSE /\ cache' = [cache EXCEPT ![key] = "partial"]
                      /\ tasks' = [tasks EXCEPT
                             ![t].step = "write",
                             ![t].body = IF r = "ok" THEN "good" ELSE "bad",
                             ![t].wrote = @ \cup {task.stage}]
                      /\ UNCHANGED uiQueue

\* fetch_json, the rest of write_text and return r.json(): a write that fails
\* leaves the partial file and raises; r.json() raises for a body that is no
\* JSON, after the body was written.
JsonWrite(t) ==
    LET task == tasks[t]
        key == <<task.pid, task.stage>>
    IN /\ proc = "running"
       /\ task.stage \in JsonKinds
       /\ task.step = "write"
       /\ UNCHANGED <<proc, disk, memory, clock, history>>
       /\ \E w \in {"ok", "partial"} :
            IF w = "partial"
            THEN /\ Finish(t, Failed(task, "write"), TRUE)
                 /\ UNCHANGED cache
            ELSE /\ cache' = [cache EXCEPT ![key] = task.body]
                 /\ IF task.body = "good"
                    THEN /\ tasks' = [tasks EXCEPT ![t] = Advance(task, "remote")]
                         /\ UNCHANGED uiQueue
                    ELSE Finish(t, Failed(task, "badbody"), TRUE)

\* get_pokemon, the sprite: if sprite_url and not sprite_path.exists(). The
\* profile may hold no url for the sprite (url = FALSE).
SpriteCheck(t) ==
    LET task == tasks[t]
        key == sprite_tag(task.pid, task.shiny)
    IN /\ proc = "running"
       /\ task.stage = "sprite"
       /\ task.step = "check"
       /\ UNCHANGED <<proc, disk, cache, memory, clock, history>>
       /\ \E url \in BOOLEAN :
            IF url /\ must_fetch(cache, key)
            THEN /\ tasks' = [tasks EXCEPT ![t].step = "get"]
                 /\ UNCHANGED uiQueue
            ELSE Finish(t, task, FALSE)

\* requests.get raises for a network error; a response that is not ok raises nothing.
sprite_response_raises(r) == r = "neterr"

\* get_pokemon, the sprite: requests.get, if img.ok, the opening of the file.
SpriteGet(t) ==
    LET task == tasks[t]
        key == sprite_tag(task.pid, task.shiny)
    IN /\ proc = "running"
       /\ task.stage = "sprite"
       /\ task.step = "get"
       /\ UNCHANGED <<proc, disk, memory, clock, history>>
       /\ \E r \in SpriteResponses, open \in {"ok", "noopen"} :
            IF sprite_response_raises(r)
            THEN /\ open = "ok"
                 /\ Finish(t, Failed(task, r), TRUE)
                 /\ UNCHANGED cache
            ELSE IF r = "notok"
                 THEN /\ open = "ok"
                      /\ Finish(t, Failed(task, r), FALSE)
                      /\ UNCHANGED cache
                 ELSE IF open = "noopen"
                      THEN /\ Finish(t, Failed(task, "noopen"), TRUE)
                           /\ UNCHANGED cache
                      ELSE /\ cache' = [cache EXCEPT ![key] = "partial"]
                           /\ tasks' = [tasks EXCEPT ![t].step = "write",
                                                     ![t].wrote = @ \cup {"sprite"}]
                           /\ UNCHANGED uiQueue

\* get_pokemon, the sprite: the rest of write_bytes, then the return.
SpriteWrite(t) ==
    LET task == tasks[t]
        key == sprite_tag(task.pid, task.shiny)
    IN /\ proc = "running"
       /\ task.stage = "sprite"
       /\ task.step = "write"
       /\ UNCHANGED <<proc, disk, memory, clock, history>>
       /\ \E w \in {"ok", "partial"} :
            IF w = "partial"
            THEN /\ Finish(t, Failed(task, "write"), TRUE)
                 /\ UNCHANGED cache
            ELSE /\ cache' = [cache EXCEPT ![key] = "good"]
                 /\ Finish(t, task, FALSE)

\* ------------------------------------------------------------- widget
\* An apply_card that appends to the names it loaded at the start, not to
\* the names it holds now.
record_encounter_stale(names, ids, name_map, pid, name) ==
    [names |-> Append(loaded.names, name),
     ids |-> ids \cup {pid},
     name_map |-> DictSet(name_map, IntKey(pid), name)]

\* An apply_card that logs a name only for an id not seen before.
record_encounter_once(names, ids, name_map, pid, name) ==
    [names |-> IF pid \in ids THEN names ELSE Append(names, name),
     ids |-> ids \cup {pid},
     name_map |-> DictSet(name_map, IntKey(pid), name)]

\* apply_card, "Log encounter": the three updates of the ledger.
record_encounter(names, ids, name_map, pid, name) ==
    [names |-> Append(names, name),
     ids |-> ids \cup {pid},
     name_map |-> DictSet(name_map, IntKey(pid), name)]

\* An apply_card that appends the entry whether or not the encounter is shiny.
record_shiny_always(hist, shiny, entry) == Append(hist, entry)

\* apply_card, "if shiny": the entry is appended for a shiny encounter only.
record_shiny(hist, shiny, entry) ==
    IF shiny THEN Append(hist, entry) ELSE hist

\* __init__ raises when it iterates a shiny history that is no list, indexes
\* an element that is no entry (the replay), or takes len() of names that are
\* no list (update_stats).
init_raises(hist, led) ==
    \/ ~hist.is_list
    \/ ~hist.entries_ok
    \/ ~led.names_is_list

\* PokedexViewer.__init__: the two loads, last_shiny_time = None, the grid,
\* the replay of the shiny history, update_stats, update_shiny_delay and the
\* first fetch_card. An exception ends the process.
Start(t) ==
    LET hist == load_shiny_history(histDoc)
        led == load_encounter_data(ledgerDoc)
        grid == [pid \in Ids |-> build_cell(pid, led.ids, led.name_map, cache)]
    IN /\ proc \in {"stopped", "crashed"}
       /\ fetched < MaxFetches
       /\ applied' = <<>>
       /\ delivered' = delivered
       /\ UNCHANGED <<disk, cache, clock, uiQueue, img_lbl, flavor_lbl>>
       /\ IF init_raises(hist, led)
          THEN /\ proc' = "crashed"
               /\ loaded' = NothingLoaded
               /\ UNCHANGED <<encounters, encounter_ids, id_to_name, shiny_history,
                              last_shiny_time, dex_cells, since_lbl, stats_lbl,
                              tasks, fetched>>
          ELSE /\ proc' = "running"
               /\ loaded' = [names |-> led.names, ids |-> led.ids, hist |-> hist.entries]
               /\ encounters' = led.names
               /\ encounter_ids' = led.ids
               /\ id_to_name' = led.name_map
               /\ shiny_history' = hist.entries
               /\ last_shiny_time' = <<>>
               /\ dex_cells' = replay_tooltips(grid, hist.entries)
               /\ stats_lbl' = update_stats(led.names, hist.entries)
               /\ since_lbl' = update_shiny_delay(<<>>, clock)
               /\ fetched' = fetched + 1
               /\ \E pid \in Ids, shiny \in BOOLEAN :
                    tasks' = [tasks EXCEPT ![t] = StartedTask(pid, shiny)]

\* fetch_card, on the card timer: a new worker is started. Here the previous
\* attempt is over (the 60 s interval is longer than the three 10 s timeouts).
FetchCard(t) ==
    /\ proc = "running"
    /\ fetched < MaxFetches
    /\ \A u \in AllWorkers : tasks[u].stage = "idle"
    /\ uiQueue = <<>>
    /\ fetched' = fetched + 1
    /\ \E pid \in Ids, shiny \in BOOLEAN :
         tasks' = [tasks EXCEPT ![t] = StartedTask(pid, shiny)]
    /\ UNCHANGED <<proc, disk, cache, memory, uiQueue, clock, applied, loaded,
                   delivered>>

\* apply_card, the slot of the result signal. wl and wh are the outcomes of
\* the two writes; neither raises into apply_card.
ApplyCard ==
    /\ proc = "running"
    /\ uiQueue # <<>>
    /\ Head(uiQueue).kind = "result"
    /\ LET sig == Head(uiQueue)
           pid == sig.pid
           name == NameOf(pid)
           sprite_path == sprite_tag(pid, sig.shiny)
           rec == record_encounter(encounters, encounter_ids, id_to_name, pid, name)
           entry == ShinyEntry(pid, clock)
           hist == record_shiny(shiny_history, sig.shiny, entry)
           tipped == IF sig.shiny
                     THEN [dex_cells EXCEPT ![pid].tooltip = append_shiny_tooltip(@, entry)]
                     ELSE dex_cells
       IN /\ encounters' = rec.names
          /\ encounter_ids' = rec.ids
          /\ id_to_name' = rec.name_map
          /\ shiny_history' = hist
          /\ img_lbl' = IF QPixmap(cache, sprite_path) # "null" THEN "pixmap" ELSE "(no sprite)"
          /\ flavor_lbl' = "flavor"
          /\ last_shiny_time' = IF sig.shiny THEN <<clock>> ELSE last_shiny_time
          /\ since_lbl' = IF sig.shiny THEN update_shiny_delay(<<clock>>, clock) ELSE since_lbl
          /\ dex_cells' = update_dex_cell(tipped, pid, sprite_path, name, cache)
          /\ stats_lbl' = update_stats(rec.names, hist)
          /\ \E wl \in WriteOutcomes, wh \in WriteOutcomes :
               /\ ledgerDoc' = save_encounter_data(ledgerDoc, rec.names, rec.ids,
                                                   rec.name_map, wl)
               /\ IF sig.shiny
                  THEN histDoc' = save_shiny_history(histDoc, hist, wh)
                  ELSE wh = "ok" /\ histDoc' = histDoc
               /\ applied' = Append(applied,
                      [pid |-> pid, shiny |-> sig.shiny, wrote |-> sig.wrote,
                       wl |-> wl, wh |-> IF sig.shiny THEN wh ELSE "none"])
    /\ uiQueue' = Tail(uiQueue)
    /\ delivered' = delivered + 1
    /\ UNCHANGED <<proc, cache, tasks, clock, loaded, fetched>>

\* show_error, the slot of the error signal.
ShowError ==
    /\ proc = "running"
    /\ uiQueue # <<>>
    /\ Head(uiQueue).kind = "error"
    /\ flavor_lbl' = "error"
    /\ uiQueue' = Tail(uiQueue)
    /\ delivered' = delivered + 1
    /\ UNCHANGED <<proc, disk, cache, encounters, encounter_ids, id_to_name,
                   shiny_history, last_shiny_time, dex_cells, img_lbl, since_lbl,
                   stats_lbl, tasks, clock, applied, loaded, fetched>>

\* update_shiny_delay, on the since timer.
UpdateShinyDelay ==
    /\ proc = "running"
    /\ since_lbl' = update_shiny_delay(last_shiny_time, clock)
    /\ UNCHANGED <<proc, disk, cache, encounters, encounter_ids, id_to_name,
                   shiny_history, last_shiny_time, dex_cells, img_lbl, flavor_lbl,
                   stats_lbl, tasks, uiQueue, clock, history>>

\* A minute passes while the widget runs.
Tick ==
    /\ proc = "running"
    /\ clock < MaxClock
    /\ clock' = clock + 1
    /\ UNCHANGED <<proc, disk, cache, memory, tasks, uiQueue, history>>

\* contextMenuEvent, "Flee": the widget closes and the process ends with no
\* attempt in flight. What the process held in memory is gone.
Quit ==
    /\ proc = "running"
    /\ \A u \in AllWorkers : tasks[u].stage = "idle"
    /\ uiQueue = <<>>
    /\ proc' = "stopped"
    /\ encounters' = <<>>
    /\ encounter_ids' = {}
    /\ id_to_name' = <<>>
    /\ shiny_history' = <<>>
    /\ last_shiny_time' = <<>>
    /\ dex_cells' = NoCells
    /\ img_lbl' = ""
    /\ flavor_lbl' = ""
    /\ since_lbl' = <<>>
    /\ stats_lbl' = update_stats(<<>>, <<>>)
    /\ applied' = <<>>
    /\ loaded' = NothingLoaded
    /\ UNCHANGED <<disk, cache, tasks, uiQueue, clock, fetched, delivered>>

Worker(t) ==
    \/ JsonCheck(t)
    \/ JsonGet(t)
    \/ JsonWrite(t)
    \/ SpriteCheck(t)
    \/ SpriteGet(t)
    \/ SpriteWrite(t)

Next ==
    \/ \E t \in SeqWorkers : Start(t)
    \/ \E t \in SeqWorkers : FetchCard(t)
    \/ \E t \in SeqWorkers : Worker(t)
    \/ ApplyCard
    \/ ShowError
    \/ UpdateShinyDelay
    \/ Tick
    \/ Quit

Spec == Init /\ [][Next]_vars

\* ------------------------------------------------------------- overlap
\* fetch_card with no assumption on the previous attempts: the pool runs the
\* new worker on its first free thread while earlier workers are in flight
\* (a response that trickles in resets the 10 s timeout with every byte, so an
\* attempt can outlast the 60 s of the card timer).
FetchCardOverlapping(t) ==
    /\ proc = "running"
    /\ fetched < MaxFetches
    /\ tasks[t].stage = "idle"
    /\ \A u \in AllWorkers : u < t => tasks[u].stage # "idle"
    /\ fetched' = fetched + 1
    /\ \E pid \in Ids, shiny \in BOOLEAN :
         tasks' = [tasks EXCEPT ![t] = StartedTask(pid, shiny)]
    /\ UNCHANGED <<proc, disk, cache, memory, uiQueue, clock, applied, loaded,
                   delivered>>

\* The program started where neither document exists yet.
InitOverlap ==
    /\ Init
    /\ ledgerDoc = MissingLedger
    /\ histDoc = MissingHist

NextOverlap ==
    \/ \E t \in SeqWorkers : Start(t)
    \/ \E t \in AllWorkers : FetchCardOverlapping(t)
    \/ \E t \in AllWorkers : Worker(t)
    \/ ApplyCard
    \/ ShowError
    \/ UpdateShinyDelay
    \/ Tick
    \/ Quit

SpecOverlap == InitOverlap /\ [][NextOverlap]_vars

\* Every request returns or times out, every write returns, and the event
\* loop of the widget's thread delivers every queued signal.
FairOverlap ==
    /\ \A t \in AllWorkers : WF_vars(Worker(t))
    /\ WF_vars(ApplyCard)
    /\ WF_vars(ShowError)

\* The attempts of one run of the process and their deliveries alone: the
\* clock stands still and the widget is not closed.
NextAttempts ==
    \/ \E t \in SeqWorkers : Start(t)
    \/ \E t \in AllWorkers : FetchCardOverlapping(t)
    \/ \E t \in AllWorkers : Worker(t)
    \/ ApplyCard
    \/ ShowError

SpecOverlapFair == InitOverlap /\ [][NextAttempts]_vars /\ FairOverlap

\* ------------------------------------------------------------- properties
Signals == {uiQueue[i] : i \in 1..Len(uiQueue)}
\* The cache file a task or a signal's failure is about.
StageKey(pid, shiny, stage) ==
    IF stage = "sprite" THEN sprite_tag(pid, shiny) ELSE <<pid, stage>>
Active == {t \in AllWorkers : tasks[t].stage # "idle"}
FreshStart == loaded.names = <<>> /\ loaded.ids = {}

\* C1: starting from an empty ledger, after any sequence of applied
\* encounters the name list holds one name per application, duplicates kept,
\* in the order of application, and the seen-id set is the set of their ids.
C1_LedgerCountsApplications ==
    (proc = "running" /\ FreshStart) =>
        /\ Len(encounters) = Len(applied)
        /\ encounters = [i \in 1..Len(applied) |-> NameOf(applied[i].pid)]
        /\ encounter_ids = {applied[i].pid : i \in 1..Len(applied)}

\* The same creature was applied twice to a ledger that started empty.
C1_Witness ==
    /\ proc = "running" /\ FreshStart
    /\ Len(applied) = 2
    /\ applied[1].pid = applied[2].pid

\* C2: saving a non-empty ledger and loading it again returns the lists, the
\* id set and an id-to-name map equal to the ones saved, so that every integer
\* id that could be looked up before the save can be looked up after the load.
C2_LedgerRoundTrip ==
    (proc = "running" /\ encounters # <<>>) =>
        LET doc == save_encounter_data(ledgerDoc, encounters, encounter_ids,
                                       id_to_name, "ok")
            back == load_encounter_data(doc)
        IN /\ back.names = encounters
           /\ back.ids = encounter_ids
           /\ back.name_map = id_to_name
           /\ \A id \in Ids : DictHas(id_to_name, IntKey(id))
                                => DictHas(back.name_map, IntKey(id))

\* C3: whatever the two documents hold, the constructor does not fail, and
\* a document that is not well-formed loads as the empty ledger, respectively
\* as the empty shiny history.
C3_CorruptionTolerated ==
    /\ proc # "crashed"
    /\ proc = "running" =>
         /\ ledgerDoc.kind # "ledger" => load_encounter_data(ledgerDoc) = EmptyLedger
         /\ histDoc.kind # "list" => load_shiny_history(histDoc) = EmptyHistory

\* C4: in every state of the running widget the since label says "no shiny
\* yet" exactly when the shiny history is empty, and otherwise shows a
\* duration that is not negative.
C4_TimeSinceLastShiny ==
    proc = "running" =>
        /\ since_lbl = <<>> <=> shiny_history = <<>>
        /\ since_lbl # <<>> => since_lbl[1] >= 0

\* C5: after an attempt ended because a fetch failed by a network error, a
\* non-success status or a body that does not parse, the cache holds no file
\* for the key of that fetch.
C5_NoEntryAfterFailedFetch ==
    \A sig \in Signals :
        sig.kind = "error" =>
            \A f \in sig.failures :
                f[2] \in {"neterr", "status", "badbody"}
                    => cache[StageKey(sig.pid, sig.shiny, f[1])] = "absent"

\* C6: every step leaves each of the two documents either as it was or
\* holding the complete state the widget holds after the step.
C6_DocumentsNeverHalfWritten ==
    [][/\ \/ ledgerDoc' = ledgerDoc
          \/ ledgerDoc' = LedgerText(encounters', encounter_ids', id_to_name')
       /\ \/ histDoc' = histDoc
          \/ histDoc' = HistText(shiny_history')]_vars

C8_FailedAttemptWroteNothing ==
    \A sig \in Signals : sig.kind = "error" => sig.wrote = {}

\* A step of a generation attempt, or the delivery of its error.
AttemptStep ==
    \/ /\ tasks' # tasks
       /\ fetched' = fetched
    \/ /\ uiQueue # <<>>
       /\ Head(uiQueue).kind = "error"
       /\ uiQueue' = Tail(uiQueue)

\* C8, amended: no step of an attempt, and no delivery of an error, changes
\* the two documents or the widget's ledger, shiny history and dex cells; in
\* the cache such a step changes no file that exists, except the file the
\* attempt itself is writing.
C8_FailedAttemptFrame ==
    [][AttemptStep =>
        /\ UNCHANGED <<ledgerDoc, histDoc, encounters, encounter_ids, id_to_name,
                       shiny_history, last_shiny_time, dex_cells>>
        /\ \A k \in CacheKeys :
             (/\ cache[k] # "absent"
              /\ ~\E t \in AllWorkers :
                    /\ tasks[t].step = "write"
                    /\ StageKey(tasks[t].pid, tasks[t].shiny, tasks[t].stage) = k)
                => cache'[k] = cache[k]]_vars

\* An attempt failed at the species document after it cached the profile.
C8_Witness ==
    \E sig \in Signals :
        /\ sig.kind = "error"
        /\ sig.wrote = {"pokemon"}
        /\ cache[<<sig.pid, "pokemon">>] = "good"
        /\ encounters = loaded.names

\* C9: starting from an empty shiny history, the history holds one entry per
\* applied shiny encounter and none for the others, in the order of
\* application.
ShinyApplied == SelectSeq(applied, LAMBDA a : a.shiny)
C9_ShinyOnlyFilter ==
    (proc = "running" /\ loaded.hist = <<>>) =>
        /\ Len(shiny_history) = Len(ShinyApplied)
        /\ \A i \in 1..Len(shiny_history) :
             /\ shiny_history[i].dex = FormatDex(ShinyApplied[i].pid)
             /\ shiny_history[i].name = NameOf(ShinyApplied[i].pid)

\* A shiny and a non-shiny encounter were applied.
C9_Witness ==
    /\ proc = "running" /\ loaded.hist = <<>>
    /\ Len(applied) = 2
    /\ applied[1].shiny /\ ~applied[2].shiny
    /\ Len(shiny_history) = 1

\* C10: a request is made to the remote only for a key that has no file, the
\* file being written is the one of that request, and a document served from
\* the cache is the stored one.
C10_FetchOnlyOnMiss ==
    \A t \in AllWorkers :
        LET task == tasks[t]
            key == StageKey(task.pid, task.shiny, task.stage)
        IN /\ task.step = "get" => cache[key] = "absent"
           /\ task.step = "write" => cache[key] = "partial"
           /\ (task.served = "cache" /\ task.stage = "species")
                => cache[<<task.pid, "pokemon">>] = "good"

\* The second attempt found the profile the first attempt had cached.
C10_Witness ==
    \E t \in AllWorkers :
        /\ tasks[t].served = "cache"
        /\ tasks[t].stage = "species"
        /\ tasks[t].wrote = {}
        /\ fetched = 2

\* A dex slot is unrevealed while it shows the grey placeholder and "***".
Revealed(cell) == cell.pix # "grey" \/ cell.name # Stars
\* The constructor returned and nothing happened to the cache or the grid
\* since: no signal was emitted and none was applied.
JustStarted == proc = "running" /\ applied = <<>> /\ uiQueue = <<>>

\* C11: right after a start, every slot whose id is in the loaded seen-id set
\* shows the name recorded for that id and the cached sprite of that id, and
\* every other slot is unrevealed.
C11_RebuildIsProjection ==
    JustStarted =>
        \A id \in Ids :
            IF id \in loaded.ids
            THEN /\ dex_cells[id].name = NameOf(id)
                 /\ cache[<<id, "normal">>] = "good" => dex_cells[id].pix = "normal"
            ELSE ~Revealed(dex_cells[id])

\* C12: in every state of the running widget, for every id of the seen-id
\* set the lookup of the integer id in id_to_name succeeds and yields the
\* name of the last applied encounter of that id.
C12_NameMapCurrent ==
    proc = "running" =>
        \A id \in encounter_ids :
            /\ DictHas(id_to_name, IntKey(id))
            /\ DictGet(id_to_name, IntKey(id)) = NameOf(id)

\* The shiny timestamps a tooltip lists: none while it shows the placeholder.
ShinyLines(tooltip) ==
    IF tooltip # <<>> /\ tooltip[1].placeholder THEN <<>> ELSE tooltip
IsPrefix(a, b) == Len(a) <= Len(b) /\ SubSeq(b, 1, Len(a)) = a
\* This step is the application of an encounter of id.
AppliedTo(id) ==
    /\ Len(applied') = Len(applied) + 1
    /\ applied'[Len(applied')].pid = id

\* C13: while the process runs, a step changes a slot only if it applies an
\* encounter of the slot's id; that step leaves the slot revealed, with the
\* encounter's name; no step returns a revealed slot to unrevealed; and the
\* shiny timestamps of a slot before a step are a prefix of those after it.
C13_SlotOneWay ==
    [][(proc = "running" /\ proc' = "running") =>
        \A id \in Ids :
            /\ Revealed(dex_cells[id]) => Revealed(dex_cells'[id])
            /\ dex_cells'[id] # dex_cells[id] => AppliedTo(id)
            /\ AppliedTo(id) =>
                 /\ Revealed(dex_cells'[id])
                 /\ dex_cells'[id].name = NameOf(id)
            /\ IsPrefix(ShinyLines(dex_cells[id].tooltip),
                        ShinyLines(dex_cells'[id].tooltip))]_vars

\* The same id was applied twice as shiny, a minute apart: its slot lists two
\* different timestamps.
C13_Witness ==
    /\ proc = "running"
    /\ Len(applied) = 2
    /\ applied[1].pid = applied[2].pid
    /\ applied[1].shiny /\ applied[2].shiny
    /\ LET tip == dex_cells[applied[1].pid].tooltip
       IN Len(tip) = 2 /\ tip[1] # tip[2] /\ ~tip[1].placeholder

\* The last application, and the last shiny one, of this process.
LastApplied == applied[Len(applied)]
LastShiny == ShinyApplied[Len(ShinyApplied)]

\* C16: when the ledger write of the last application succeeded, the ledger
\* document holds the names list and the seen-id set the widget holds; when
\* the history write of the last shiny application succeeded, the history
\* document holds the shiny history the widget holds.
C16_WriteThrough ==
    proc = "running" =>
        /\ (applied # <<>> /\ LastApplied.wl = "ok") =>
             /\ ledgerDoc.kind = "ledger"
             /\ ledgerDoc.names = encounters
             /\ ledgerDoc.ids = encounter_ids
        /\ (ShinyApplied # <<>> /\ LastShiny.wh = "ok") =>
             histDoc = HistText(shiny_history)

\* Two encounters were applied and written, the second one shiny.
C16_Witness ==
    /\ proc = "running"
    /\ Len(applied) = 2
    /\ applied[1].wl = "ok" /\ applied[2].wl = "ok"
    /\ applied[2].shiny /\ applied[2].wh = "ok"
    /\ Len(ledgerDoc.names) = Len(loaded.names) + 2
    /\ histDoc.entries # <<>>

\* The tooltip lines of the history entries whose dex number is id.
HistoryLines(hist, id) ==
    LET mine == SelectSeq(hist, LAMBDA e : ParseDex(e.dex) = id)
    IN [i \in 1..Len(mine) |-> TooltipLine(mine[i])]

\* C18: in every state of the running widget the tooltip of slot id lists
\* the "time - date" lines of the shiny-history entries of id, in history
\* order, and shows the placeholder exactly when the history has none.
C18_TooltipIsProjection ==
    proc = "running" =>
        \A id \in Ids :
            LET lines == HistoryLines(shiny_history, id)
            IN dex_cells[id].tooltip = IF lines = <<>> THEN <<NoShinyLine>> ELSE lines

\* A slot lists a timestamp replayed from the loaded history and one appended
\* by a shiny encounter of this process.
C18_Witness ==
    /\ proc = "running"
    /\ loaded.hist # <<>>
    /\ applied # <<>>
    /\ LastApplied.shiny
    /\ ParseDex(loaded.hist[1].dex) = LastApplied.pid
    /\ Len(dex_cells[LastApplied.pid].tooltip) = Len(loaded.hist) + 1

\* C19: whatever the outcomes of the writes, every application completes:
\* the process keeps running, the ledger and the shiny history in memory keep
\* every applied encounter, its slot is revealed and the stats are those of the
\* lists in memory. A ledger write that succeeds persists every name applied so
\* far, those whose write failed included, and so does a history write.
C19_FailedWriteTolerated ==
    /\ applied # <<>> => proc = "running"
    /\ proc = "running" =>
         /\ encounters = loaded.names \o [i \in 1..Len(applied) |-> NameOf(applied[i].pid)]
         /\ Len(shiny_history) = Len(loaded.hist) + Len(ShinyApplied)
         /\ \A i \in 1..Len(applied) : dex_cells[applied[i].pid].name = NameOf(applied[i].pid)
         /\ stats_lbl = update_stats(encounters, shiny_history)
         /\ (applied # <<>> /\ LastApplied.wl = "ok") =>
              ledgerDoc.names =
                  loaded.names \o [i \in 1..Len(applied) |-> NameOf(applied[i].pid)]
         /\ (ShinyApplied # <<>> /\ LastShiny.wh = "ok") =>
              /\ Len(histDoc.entries) = Len(loaded.hist) + Len(ShinyApplied)
              /\ \A i \in 1..Len(ShinyApplied) :
                   histDoc.entries[Len(loaded.hist) + i].dex = FormatDex(ShinyApplied[i].pid)

\* The ledger write of the first application failed and the one of the
\* second succeeded: the document holds both names.
C19_Witness ==
    /\ proc = "running"
    /\ Len(applied) = 2
    /\ applied[1].wl # "ok"
    /\ applied[2].wl = "ok"
    /\ Len(ledgerDoc.names) = Len(loaded.names) + 2

\* C14: with overlapping attempts no attempt fails reading a cached entry
\* that another attempt was writing: an attempt whose error is a cached entry
\* that did not parse never stands beside a complete valid entry for that key.
C14_OnlyDuplicateFetches ==
    \A sig \in Signals :
        \A f \in sig.failures :
            f[2] = "cached" => cache[StageKey(sig.pid, sig.shiny, f[1])] # "good"

\* The delivery of a result signal to apply_card.
ResultStep ==
    /\ uiQueue # <<>>
    /\ Head(uiQueue).kind = "result"
    /\ uiQueue' = Tail(uiQueue)

\* C15: with overlapping attempts, no step of a worker and no delivery of an
\* error changes the ledger, the shiny history, the dex cells or the documents;
\* each delivery of a result appends exactly one name, the one of its
\* encounter, to the names of all earlier applications and, when its write
\* succeeds, leaves all of them in the ledger document; and no other step of
\* the running process changes the ledger or its document.
C15_NoLostUpdates ==
    [][/\ AttemptStep =>
            UNCHANGED <<ledgerDoc, histDoc, encounters, encounter_ids, id_to_name,
                        shiny_history, dex_cells>>
       /\ ResultStep =>
            /\ encounters' = Append(encounters, NameOf(Head(uiQueue).pid))
            /\ encounter_ids' = encounter_ids \cup {Head(uiQueue).pid}
            /\ Len(applied') = Len(applied) + 1
            /\ applied'[Len(applied')].wl = "ok" =>
                 /\ ledgerDoc'.kind = "ledger"
                 /\ ledgerDoc'.names = encounters'
       /\ (proc = "running" /\ proc' = "running" /\ ~ResultStep) =>
            UNCHANGED <<ledgerDoc, encounters, encounter_ids, id_to_name>>]_vars

\* Two attempts overlapped (each fetched the profile of the same id itself),
\* both were applied, and the document holds both names.
C15_Witness ==
    /\ proc = "running"
    /\ Len(applied) = 2
    /\ applied[1].pid = applied[2].pid
    /\ "pokemon" \in applied[1].wrote \cap applied[2].wrote
    /\ applied[2].wl = "ok"
    /\ ledgerDoc.names = <<NameOf(applied[1].pid), NameOf(applied[2].pid)>>

\* C17: every started attempt is in flight, queued as one signal or
\* delivered as one signal, and never more than one of these; and under the
\* fairness of FairOverlap, whenever a started attempt has not delivered its
\* signal yet, a state follows in which every started attempt has.
C17_OneOutcomePerTrigger ==
    /\ [](fetched = delivered + Len(uiQueue) + Cardinality(Active))
    /\ (fetched > delivered) ~> (fetched = delivered)

\* Two attempts overlapped on the profile of one id: the result of the one
\* was applied and the error of the other is queued.
C17_Witness ==
    /\ proc = "running"
    /\ fetched = 2 /\ delivered = 1
    /\ Len(applied) = 1
    /\ Len(uiQueue) = 1
    /\ Head(uiQueue).kind = "error"
    /\ Head(uiQueue).pid = applied[1].pid
    /\ "pokemon" \in applied[1].wrote \cap Head(uiQueue).wrote

====
